---------------------------- MODULE Spec2Model ----------------------------
(***************************************************************************)
(* The short-code supply pipeline of shorturl-net                          *)
(* (internal/shortcode: Generator) together with the link handlers that    *)
(* consume its codes and write the short_links table.                      *)
(*                                                                         *)
(* Goroutines take one step per access to shared state: every read of      *)
(* len(codeChan), every select on stopChan, every channel operation and    *)
(* every store query is a step of its own, so that all interleavings of    *)
(* the initial fill goroutine, the monitor goroutine and the request       *)
(* handlers are explored.  Steps that touch only a goroutine's own state   *)
(* (drawing the random string, the loop counter) are folded into the next  *)
(* shared access; the 100ms sleep after a failed draw is a position of its *)
(* own.                                                                    *)
(***************************************************************************)
EXTENDS Naturals, Sequences, FiniteSets, Bags, TLC

(***************************************************************************)
(* Sizes.  The source uses a channel of 1000 codes, a threshold of 100 and *)
(* 10 attempts per candidate; the model keeps the relation                 *)
(* 0 < MinFillThreshold < ChannelBufferSize and scales them down.          *)
(***************************************************************************)
ChannelBufferSize == 2

MinFillThreshold == 1

\* generateUniqueCode: for i := 0; i < 10; i++
MaxAttempts == 2

\* Number of times Start() may be called on one Generator.
MaxStarts == 2

\* The characters of a short code.
Charset == "abcdefghijklmnopqrstuvwxyzABCDEFGHIJKLMNOPQRSTUVWXYZ0123456789"

\* The length of a short code.
CodeLength == 7

\* b[i] = Charset[num.Int64()] for the first n bytes of b, where nums[i]
\* is the number rand.Int returns for the i-th byte (Go indexes Charset
\* from 0).
RECURSIVE CharsetBytes(_, _)
CharsetBytes(nums, n) ==
    IF n = 0
      THEN ""
      ELSE CharsetBytes(nums, n - 1)
              \o SubSeq(Charset, nums[n] + 1, nums[n] + 1)

generateRandomStringShort(length, nums) == CharsetBytes(nums, length - 1)

\* b := make([]byte, length); for i := range b { ... }; return string(b)
generateRandomString(length, nums) == CharsetBytes(nums, length)

\* What rand.Int(rand.Reader, len(Charset)) may return.
RandInts == 0 .. (Len(Charset) - 1)

\* The runs of the random source the model follows: two of the
\* Len(Charset)^CodeLength stand for the code space.
RandRuns == {[i \in 1 .. CodeLength |-> n] : n \in {0, 1}}

\* The strings generateRandomString returns on these runs.
Codes == {generateRandomString(CodeLength, nums) : nums \in RandRuns}

\* The empty string: generateUniqueCode's "nothing" result.
NoCode == ""

CodeVals == Codes \cup {NoCode}

\* The POST /api/shorten requests: one more than the channel holds, so
\* that a full channel can be drained with a request left waiting.
Requests == {"r1", "r2", "r3"}

\* One initial fill goroutine and one monitor goroutine per Start() call.
FillTasks == {"fill"} \X (1 .. MaxStarts)

MonTasks == {"mon"} \X (1 .. MaxStarts)

Tasks == FillTasks \cup MonTasks

VARIABLES
    codeChan,     \* g.codeChan: the buffered channel's queue
    chanCap,      \* cap(g.codeChan)
    isFilling,    \* g.isFilling (guarded by g.mu)
    stopped,      \* g.stopChan is closed
    nStarts,      \* calls of Start() so far
    pc,           \* position of each background goroutine
    attempt,      \* generateUniqueCode's i, per goroutine
    cand,         \* generateUniqueCode's code, per goroutine
    qfail,        \* the goroutine's last existence query failed
    store,        \* short_links: short_code -> "none" | "active" | "inactive"
    rpc,          \* position of each CreateShortLink request
    got,          \* shortCode of each request while it runs
    resp,         \* HTTP status of each request (0: none yet)
    pushed,       \* history: bag of all codes sent on codeChan
    taken,        \* history: bag of all codes GetCode has returned
    anyQueryOk,   \* history: some existence query has been answered
    everStored    \* history: codes that ever had a short_links row

vars == <<codeChan, chanCap, isFilling, stopped, nStarts, pc, attempt, cand,
          qfail, store, rpc, got, resp, pushed, taken, anyQueryOk,
          everStored>>

\* What the handlers own.
handlerVars == <<store, rpc, got, resp, taken, everStored>>

\* What the Generator owns, apart from the channel.
controlVars == <<chanCap, isFilling, stopped, nStarts, pc, attempt, cand,
                 qfail, anyQueryOk>>

\* Positions between acquiring isFilling and releasing it.
InPass == {"fc_loop", "fc_select", "gen", "sleep", "push", "fc_unlock"}

\* Where fillChannel returns to: the monitor's select, or the goroutine ends.
Return(t) == IF t \in MonTasks THEN "mon_select" ELSE "done"

----------------------------------------------------------------------------
(* NewGenerator *)

NewGeneratorCapWrong == MinFillThreshold

\* make(chan string, ChannelBufferSize)
NewGeneratorCap == ChannelBufferSize

Init ==
    /\ codeChan = <<>>
    /\ chanCap = NewGeneratorCap
    /\ isFilling = FALSE
    /\ stopped = FALSE
    /\ nStarts = 0
    /\ pc = [t \in Tasks |-> "unborn"]
    /\ attempt = [t \in Tasks |-> 0]
    /\ cand = [t \in Tasks |-> NoCode]
    /\ qfail = [t \in Tasks |-> FALSE]
    /\ store = [c \in CodeVals |-> "none"]
    /\ rpc = [r \in Requests |-> "idle"]
    /\ got = [r \in Requests |-> NoCode]
    /\ resp = [r \in Requests |-> 0]
    /\ pushed = EmptyBag
    /\ taken = EmptyBag
    /\ anyQueryOk = FALSE
    /\ everStored = {}

----------------------------------------------------------------------------
(* Start, Stop *)

\* go g.fillChannel(); go g.monitorAndRefill()
Start ==
    /\ nStarts < MaxStarts
    /\ nStarts' = nStarts + 1
    /\ pc' = [pc EXCEPT ![<<"fill", nStarts + 1>>] = "fc_lock",
                        ![<<"mon", nStarts + 1>>] = "mon_select"]
    /\ UNCHANGED <<codeChan, chanCap, isFilling, stopped, attempt, cand,
                   qfail, pushed, anyQueryOk>>
    /\ UNCHANGED handlerVars

\* main: shortcodeGenerator.Start() is called once per Generator.
StartOnce ==
    /\ nStarts = 0
    /\ Start

StopNeedsReceiver ==
    /\ ~stopped
    /\ \E t \in MonTasks : pc[t] = "mon_select"
    /\ stopped' = TRUE
    /\ UNCHANGED <<codeChan, chanCap, isFilling, nStarts, pc, attempt, cand,
                   qfail, pushed, anyQueryOk>>
    /\ UNCHANGED handlerVars

StopDrains ==
    /\ ~stopped
    /\ stopped' = TRUE
    /\ codeChan' = <<>>
    /\ UNCHANGED <<chanCap, isFilling, nStarts, pc, attempt, cand, qfail,
                   pushed, anyQueryOk>>
    /\ UNCHANGED handlerVars

\* close(g.stopChan); a second close panics, so Stop is called once.
Stop ==
    /\ ~stopped
    /\ stopped' = TRUE
    /\ UNCHANGED <<codeChan, chanCap, isFilling, nStarts, pc, attempt, cand,
                   qfail, pushed, anyQueryOk>>
    /\ UNCHANGED handlerVars

----------------------------------------------------------------------------
(* monitorAndRefill *)

MonitorNeverRefills == FALSE

BelowOrAtThreshold == Len(codeChan) <= MinFillThreshold

\* if len(g.codeChan) < MinFillThreshold
BelowThreshold == Len(codeChan) < MinFillThreshold

\* case <-ticker.C: fillChannel() when the channel is below the threshold
MonitorTick(t) ==
    /\ t \in MonTasks
    /\ pc[t] = "mon_select"
    /\ pc' = [pc EXCEPT ![t] = IF BelowThreshold THEN "fc_lock"
                                                 ELSE "mon_select"]
    /\ UNCHANGED <<codeChan, chanCap, isFilling, stopped, nStarts, attempt,
                   cand, qfail, pushed, anyQueryOk>>
    /\ UNCHANGED handlerVars

\* case <-g.stopChan: return
MonitorStop(t) ==
    /\ t \in MonTasks
    /\ pc[t] = "mon_select"
    /\ stopped
    /\ pc' = [pc EXCEPT ![t] = "done"]
    /\ UNCHANGED <<codeChan, chanCap, isFilling, stopped, nStarts, attempt,
                   cand, qfail, pushed, anyQueryOk>>
    /\ UNCHANGED handlerVars

----------------------------------------------------------------------------
(* fillChannel *)

FillAcquireNoCheck(t) ==
    /\ pc[t] = "fc_lock"
    /\ isFilling' = TRUE
    /\ pc' = [pc EXCEPT ![t] = "fc_loop"]
    /\ UNCHANGED <<codeChan, chanCap, stopped, nStarts, attempt, cand, qfail,
                   pushed, anyQueryOk>>
    /\ UNCHANGED handlerVars

FillAcquireClearsFlag(t) ==
    /\ pc[t] = "fc_lock"
    /\ IF isFilling
         THEN /\ pc' = [pc EXCEPT ![t] = Return(t)]
              /\ isFilling' = FALSE
         ELSE /\ isFilling' = TRUE
              /\ pc' = [pc EXCEPT ![t] = "fc_loop"]
    /\ UNCHANGED <<codeChan, chanCap, stopped, nStarts, attempt, cand, qfail,
                   pushed, anyQueryOk>>
    /\ UNCHANGED handlerVars

\* g.mu.Lock(); if g.isFilling { unlock; return }; g.isFilling = true; unlock
FillAcquire(t) ==
    /\ pc[t] = "fc_lock"
    /\ IF isFilling
         THEN /\ pc' = [pc EXCEPT ![t] = Return(t)]
              /\ UNCHANGED isFilling
         ELSE /\ isFilling' = TRUE
              /\ pc' = [pc EXCEPT ![t] = "fc_loop"]
    /\ UNCHANGED <<codeChan, chanCap, stopped, nStarts, attempt, cand, qfail,
                   pushed, anyQueryOk>>
    /\ UNCHANGED handlerVars

FillLoopTestNoCheck(t) ==
    /\ pc[t] = "fc_loop"
    /\ pc' = [pc EXCEPT ![t] = "fc_select"]
    /\ UNCHANGED <<codeChan, chanCap, isFilling, stopped, nStarts, attempt,
                   cand, qfail, pushed, anyQueryOk>>
    /\ UNCHANGED handlerVars

FillLoopTestToThreshold(t) ==
    /\ pc[t] = "fc_loop"
    /\ pc' = [pc EXCEPT ![t] = IF Len(codeChan) < MinFillThreshold
                                 THEN "fc_select" ELSE "fc_unlock"]
    /\ UNCHANGED <<codeChan, chanCap, isFilling, stopped, nStarts, attempt,
                   cand, qfail, pushed, anyQueryOk>>
    /\ UNCHANGED handlerVars

\* for len(g.codeChan) < ChannelBufferSize
FillLoopTest(t) ==
    /\ pc[t] = "fc_loop"
    /\ pc' = [pc EXCEPT ![t] = IF Len(codeChan) < ChannelBufferSize
                                 THEN "fc_select" ELSE "fc_unlock"]
    /\ UNCHANGED <<codeChan, chanCap, isFilling, stopped, nStarts, attempt,
                   cand, qfail, pushed, anyQueryOk>>
    /\ UNCHANGED handlerVars

FillSelectIgnoresStop(t) ==
    /\ pc[t] = "fc_select"
    /\ pc' = [pc EXCEPT ![t] = "gen"]
    /\ UNCHANGED <<codeChan, chanCap, isFilling, stopped, nStarts, attempt,
                   cand, qfail, pushed, anyQueryOk>>
    /\ UNCHANGED handlerVars

\* select { case <-g.stopChan: return; default: generateUniqueCode() }
FillSelect(t) ==
    /\ pc[t] = "fc_select"
    /\ pc' = [pc EXCEPT ![t] = IF stopped THEN "fc_unlock" ELSE "gen"]
    /\ UNCHANGED <<codeChan, chanCap, isFilling, stopped, nStarts, attempt,
                   cand, qfail, pushed, anyQueryOk>>
    /\ UNCHANGED handlerVars

GenerateErrAborts(t) ==
    /\ pc[t] = "gen"
    /\ pc' = [pc EXCEPT ![t] = "fc_unlock"]
    /\ attempt' = [attempt EXCEPT ![t] = 0]
    /\ qfail' = [qfail EXCEPT ![t] = FALSE]
    /\ UNCHANGED <<codeChan, chanCap, isFilling, stopped, nStarts, cand,
                   pushed, anyQueryOk>>
    /\ UNCHANGED handlerVars

\* rand.Int fails inside generateRandomString: generateUniqueCode returns
\* ("", err); fillChannel logs the error and goes to sleep.
GenerateErr(t) ==
    /\ pc[t] = "gen"
    /\ pc' = [pc EXCEPT ![t] = "sleep"]
    /\ attempt' = [attempt EXCEPT ![t] = 0]
    /\ qfail' = [qfail EXCEPT ![t] = FALSE]
    /\ UNCHANGED <<codeChan, chanCap, isFilling, stopped, nStarts, cand,
                   pushed, anyQueryOk>>
    /\ UNCHANGED handlerVars

\* time.Sleep(100 * time.Millisecond) is over; continue: back to the loop
\* test.
FillSleep(t) ==
    /\ pc[t] = "sleep"
    /\ pc' = [pc EXCEPT ![t] = "fc_loop"]
    /\ UNCHANGED <<codeChan, chanCap, isFilling, stopped, nStarts, attempt,
                   cand, qfail, pushed, anyQueryOk>>
    /\ UNCHANGED handlerVars

isCodeExistNever(code, queryErr) == FALSE

isCodeExistFailOpen(code, queryErr) ==
    IF queryErr THEN FALSE ELSE store[code] # "none"

\* Count(&count) over short_links where short_code = code; true on error.
isCodeExist(code, queryErr) ==
    IF queryErr THEN TRUE ELSE store[code] # "none"

GenerateProbeOneMore(t, c, queryErr) ==
    /\ pc[t] = "gen"
    /\ c \in Codes
    /\ anyQueryOk' = (anyQueryOk \/ ~queryErr)
    /\ IF ~isCodeExist(c, queryErr)
         THEN /\ pc' = [pc EXCEPT ![t] = "push"]
              /\ cand' = [cand EXCEPT ![t] = c]
              /\ qfail' = [qfail EXCEPT ![t] = queryErr]
              /\ UNCHANGED attempt
         ELSE IF attempt[t] + 1 <= MaxAttempts
                THEN /\ pc' = [pc EXCEPT ![t] = "gen"]
                     /\ attempt' = [attempt EXCEPT ![t] = attempt[t] + 1]
                     /\ qfail' = [qfail EXCEPT ![t] = queryErr]
                     /\ UNCHANGED cand
                ELSE /\ pc' = [pc EXCEPT ![t] = "fc_loop"]
                     /\ attempt' = [attempt EXCEPT ![t] = 0]
                     /\ qfail' = [qfail EXCEPT ![t] = FALSE]
                     /\ UNCHANGED cand
    /\ UNCHANGED <<codeChan, chanCap, isFilling, stopped, nStarts, pushed>>
    /\ UNCHANGED handlerVars

\* One turn of generateUniqueCode's loop: generateRandomString returns the
\* string c and the store is asked whether c exists (the query may fail).
\* if !g.isCodeExist(code) { return code, nil }; otherwise i++, and after
\* the last attempt return "", nil (fillChannel then skips the send).
GenerateProbe(t, c, queryErr) ==
    /\ pc[t] = "gen"
    /\ c \in Codes
    /\ anyQueryOk' = (anyQueryOk \/ ~queryErr)
    /\ IF ~isCodeExist(c, queryErr)
         THEN /\ pc' = [pc EXCEPT ![t] = "push"]
              /\ cand' = [cand EXCEPT ![t] = c]
              /\ qfail' = [qfail EXCEPT ![t] = queryErr]
              /\ UNCHANGED attempt
         ELSE IF attempt[t] + 1 < MaxAttempts
                THEN /\ pc' = [pc EXCEPT ![t] = "gen"]
                     /\ attempt' = [attempt EXCEPT ![t] = attempt[t] + 1]
                     /\ qfail' = [qfail EXCEPT ![t] = queryErr]
                     /\ UNCHANGED cand
                ELSE /\ pc' = [pc EXCEPT ![t] = "fc_loop"]
                     /\ attempt' = [attempt EXCEPT ![t] = 0]
                     /\ qfail' = [qfail EXCEPT ![t] = FALSE]
                     /\ UNCHANGED cand
    /\ UNCHANGED <<codeChan, chanCap, isFilling, stopped, nStarts, pushed>>
    /\ UNCHANGED handlerVars

\* if code != "" { g.codeChan <- code }: the send blocks while the channel
\* is full.
FillPush(t) ==
    /\ pc[t] = "push"
    /\ Len(codeChan) < chanCap
    /\ codeChan' = Append(codeChan, cand[t])
    /\ pushed' = pushed (+) SetToBag({cand[t]})
    /\ pc' = [pc EXCEPT ![t] = "fc_loop"]
    /\ attempt' = [attempt EXCEPT ![t] = 0]
    /\ cand' = [cand EXCEPT ![t] = NoCode]
    /\ qfail' = [qfail EXCEPT ![t] = FALSE]
    /\ UNCHANGED <<chanCap, isFilling, stopped, nStarts, anyQueryOk>>
    /\ UNCHANGED handlerVars

FillReleaseKeepsFlag(t) ==
    /\ pc[t] = "fc_unlock"
    /\ pc' = [pc EXCEPT ![t] = Return(t)]
    /\ UNCHANGED <<codeChan, chanCap, isFilling, stopped, nStarts, attempt,
                   cand, qfail, pushed, anyQueryOk>>
    /\ UNCHANGED handlerVars

\* the deferred func: g.isFilling = false
FillRelease(t) ==
    /\ pc[t] = "fc_unlock"
    /\ isFilling' = FALSE
    /\ pc' = [pc EXCEPT ![t] = Return(t)]
    /\ UNCHANGED <<codeChan, chanCap, stopped, nStarts, attempt, cand, qfail,
                   pushed, anyQueryOk>>
    /\ UNCHANGED handlerVars

----------------------------------------------------------------------------
(* The handlers: CreateShortLink (with GetCode), ToggleLink, DeleteLink *)

\* c.ShouldBindJSON: 400 on an invalid body, otherwise go on to GetCode.
CreateBind(r, valid) ==
    /\ rpc[r] = "idle"
    /\ IF valid
         THEN /\ rpc' = [rpc EXCEPT ![r] = "take"]
              /\ UNCHANGED resp
         ELSE /\ rpc' = [rpc EXCEPT ![r] = "done"]
              /\ resp' = [resp EXCEPT ![r] = 400]
    /\ UNCHANGED <<store, got, taken, everStored>>
    /\ UNCHANGED <<codeChan, pushed>>
    /\ UNCHANGED controlVars

GetCodePeek(r) ==
    /\ rpc[r] = "take"
    /\ Len(codeChan) > 0
    /\ got' = [got EXCEPT ![r] = Head(codeChan)]
    /\ taken' = taken (+) SetToBag({Head(codeChan)})
    /\ rpc' = [rpc EXCEPT ![r] = "create"]
    /\ UNCHANGED <<store, resp, everStored>>
    /\ UNCHANGED <<codeChan, pushed>>
    /\ UNCHANGED controlVars

GetCodeNonBlocking(r) ==
    /\ rpc[r] = "take"
    /\ IF Len(codeChan) > 0
         THEN /\ got' = [got EXCEPT ![r] = Head(codeChan)]
              /\ taken' = taken (+) SetToBag({Head(codeChan)})
              /\ codeChan' = Tail(codeChan)
         ELSE /\ got' = [got EXCEPT ![r] = NoCode]
              /\ taken' = taken (+) SetToBag({NoCode})
              /\ UNCHANGED codeChan
    /\ rpc' = [rpc EXCEPT ![r] = "create"]
    /\ UNCHANGED <<store, resp, everStored>>
    /\ UNCHANGED pushed
    /\ UNCHANGED controlVars

GetCodeWokenByStop(r) ==
    /\ rpc[r] = "take"
    /\ Len(codeChan) > 0 \/ stopped
    /\ IF Len(codeChan) > 0
         THEN /\ got' = [got EXCEPT ![r] = Head(codeChan)]
              /\ taken' = taken (+) SetToBag({Head(codeChan)})
              /\ codeChan' = Tail(codeChan)
         ELSE /\ got' = [got EXCEPT ![r] = NoCode]
              /\ taken' = taken (+) SetToBag({NoCode})
              /\ UNCHANGED codeChan
    /\ rpc' = [rpc EXCEPT ![r] = "create"]
    /\ UNCHANGED <<store, resp, everStored>>
    /\ UNCHANGED pushed
    /\ UNCHANGED controlVars

\* return <-g.codeChan: blocks while the channel is empty.
GetCode(r) ==
    /\ rpc[r] = "take"
    /\ Len(codeChan) > 0
    /\ got' = [got EXCEPT ![r] = Head(codeChan)]
    /\ taken' = taken (+) SetToBag({Head(codeChan)})
    /\ codeChan' = Tail(codeChan)
    /\ rpc' = [rpc EXCEPT ![r] = "create"]
    /\ UNCHANGED <<store, resp, everStored>>
    /\ UNCHANGED pushed
    /\ UNCHANGED controlVars

\* h.db.Create(&shortLink): short_code has a unique index; any error
\* answers 500, success answers 201.
CreateInsert(r, dbErr) ==
    /\ rpc[r] = "create"
    /\ IF dbErr \/ store[got[r]] # "none"
         THEN /\ resp' = [resp EXCEPT ![r] = 500]
              /\ UNCHANGED <<store, everStored>>
         ELSE /\ store' = [store EXCEPT ![got[r]] = "active"]
              /\ everStored' = everStored \cup {got[r]}
              /\ resp' = [resp EXCEPT ![r] = 201]
    /\ rpc' = [rpc EXCEPT ![r] = "done"]
    /\ got' = [got EXCEPT ![r] = NoCode]
    /\ UNCHANGED taken
    /\ UNCHANGED <<codeChan, pushed>>
    /\ UNCHANGED controlVars

\* Update("is_active", !link.IsActive) on the row found by short_code;
\* 404 without a row.
ToggleLink(c) ==
    /\ c \in Codes
    /\ store[c] # "none"
    /\ store' = [store EXCEPT ![c] = IF store[c] = "active" THEN "inactive"
                                                             ELSE "active"]
    /\ UNCHANGED <<rpc, got, resp, taken, everStored>>
    /\ UNCHANGED <<codeChan, pushed>>
    /\ UNCHANGED controlVars

\* Delete(&model.ShortLink{}) where short_code = code: ShortLink has no
\* DeletedAt column, so the row is removed.
DeleteLink(c) ==
    /\ c \in Codes
    /\ store[c] # "none"
    /\ store' = [store EXCEPT ![c] = "none"]
    /\ UNCHANGED <<rpc, got, resp, taken, everStored>>
    /\ UNCHANGED <<codeChan, pushed>>
    /\ UNCHANGED controlVars

----------------------------------------------------------------------------
(* Specifications *)

\* A step of a background goroutine that does not read a closed stopChan.
WorkStep(t) ==
    \/ MonitorTick(t)
    \/ FillAcquire(t)
    \/ FillLoopTest(t)
    \/ FillSelect(t)
    \/ GenerateErr(t)
    \/ FillSleep(t)
    \/ \E c \in Codes, queryErr \in BOOLEAN : GenerateProbe(t, c, queryErr)
    \/ FillPush(t)
    \/ FillRelease(t)

\* A step of some background goroutine.
TaskStep(t) ==
    \/ WorkStep(t)
    \/ MonitorStop(t)

\* A step of some CreateShortLink request.
RequestStep(r) ==
    \/ \E valid \in BOOLEAN : CreateBind(r, valid)
    \/ GetCode(r)
    \/ \E dbErr \in BOOLEAN : CreateInsert(r, dbErr)

\* The service as main runs it: one Start, one Stop, any requests.
Next ==
    \/ StartOnce
    \/ Stop
    \/ \E t \in Tasks : TaskStep(t)
    \/ \E r \in Requests : RequestStep(r)
    \/ \E c \in Codes : ToggleLink(c)
    \/ \E c \in Codes : DeleteLink(c)

Spec == Init /\ [][Next]_vars

\* A request with a valid body whose insert meets no store outage.
CleanRequestStep(r) ==
    \/ CreateBind(r, TRUE)
    \/ GetCode(r)
    \/ CreateInsert(r, FALSE)

\* A request up to the return of GetCode.
TakeStep(r) ==
    \/ CreateBind(r, TRUE)
    \/ GetCode(r)

\* Two of the requests.
SomeRequests == {"r1", "r2"}

\* The Generator under any use of its API: Start may be called again, and
\* a caller of GetCode drains the channel.
RestartNext ==
    \/ Start
    \/ Stop
    \/ \E t \in Tasks : TaskStep(t)
    \/ TakeStep("r1")

RestartSpec == Init /\ [][RestartNext]_vars

\* The pipeline from main's Start to its Stop, with two consumers.
StopNext ==
    \/ StartOnce
    \/ Stop
    \/ \E t \in Tasks : TaskStep(t)
    \/ \E r \in SomeRequests : CleanRequestStep(r)

\* The pipeline while it runs: started by main and not stopped.
RunningNext ==
    \/ StartOnce
    \/ \E t \in Tasks : WorkStep(t)
    \/ \E r \in Requests : CleanRequestStep(r)

\* generateUniqueCode returns a code: the random source and the store
\* answer, and the candidate is new.
GenerateFresh(t) ==
    \E c \in Codes : GenerateProbe(t, c, FALSE) /\ pc'[t] = "push"

\* The Go scheduler runs every runnable goroutine: each keeps stepping.
Scheduling == \A t \in Tasks : WF_vars(TaskStep(t))

\* Scheduling, and select takes a ready case: a monitor whose stopChan case
\* is ready again and again takes it.
FairSpec ==
    /\ Init
    /\ [][StopNext]_vars
    /\ Scheduling
    /\ \A t \in MonTasks : SF_vars(MonitorStop(t))

\* The running pipeline under the same scheduling, with a random source and
\* a store that keep answering (a pass that generates again and again gets
\* a new code at some time), and with a channel that wakes a waiting
\* receiver when it holds a code.
LiveSpec ==
    /\ Init
    /\ [][RunningNext]_vars
    /\ Scheduling
    /\ SF_vars(\E t \in Tasks : GenerateFresh(t))
    /\ WF_vars(\E r \in Requests : GetCode(r))

\* Stop is called while request r1 waits in GetCode on the empty channel.
StopWhileBlocked ==
    /\ rpc["r1"] = "take"
    /\ Len(codeChan) = 0
    /\ Stop

\* The pipeline stopped under a waiting request.
BlockedStopNext ==
    \/ StartOnce
    \/ StopWhileBlocked
    \/ \E t \in Tasks : TaskStep(t)
    \/ \E r \in Requests : CleanRequestStep(r)

BlockedStopSpec == Init /\ [][BlockedStopNext]_vars

----------------------------------------------------------------------------
(* Properties *)

\* The bag of the elements of a sequence.
SeqToBag(s) ==
    [c \in {s[i] : i \in DOMAIN s} |->
        Cardinality({i \in DOMAIN s : s[i] = c})]

\* The goroutines inside a refill pass.
Filling == {t \in Tasks : pc[t] \in InPass}

\* Some goroutine sends on codeChan in this step.
PushStep(t) == pc[t] = "push" /\ pc'[t] # "push"

\* C1: the channel never holds more codes than its capacity, and the
\* capacity stays the ChannelBufferSize it was made with.
C1_BufferWithinCapacity ==
    /\ Len(codeChan) <= chanCap
    /\ chanCap = ChannelBufferSize

\* C1 witness: the channel is full while a refill pass runs and codes have
\* been taken.
C1_FullDuringRefill ==
    /\ Len(codeChan) = ChannelBufferSize
    /\ taken # EmptyBag
    /\ Filling # {}

\* C2: at most one goroutine is between acquiring isFilling and releasing
\* it, however often Start is called, and isFilling is set exactly while
\* one is.
C2_SingleFlight ==
    /\ Cardinality(Filling) <= 1
    /\ isFilling <=> Filling # {}

\* C2 witness: after two Starts and after codes were taken, one pass runs
\* while two other triggers stand at the lock.
C2_ConcurrentTriggers ==
    /\ nStarts = 2
    /\ taken # EmptyBag
    /\ Filling # {}
    /\ Cardinality({t \in Tasks : pc[t] = "fc_lock"}) >= 2

\* C3: the codes in the channel are distinct, and no code is returned by
\* GetCode twice.
C3_CodesDistinct ==
    /\ \A i, j \in DOMAIN codeChan : i # j => codeChan[i] # codeChan[j]
    /\ \A c \in Codes : CopiesIn(c, taken) <= 1

\* C4: a code is not in short_links at the moment it is sent on codeChan.
C4_PushedCodeNotInStore ==
    [][\A t \in Tasks : PushStep(t) => store[cand[t]] = "none"]_vars

\* C5: a code that ever had a short_links row is never sent on codeChan
\* again.
C5_StoredCodeNeverPushed ==
    [][\A t \in Tasks : PushStep(t) => cand[t] \notin everStored]_vars

\* C6: a candidate whose existence query failed is never sent, and nothing
\* is sent before some query has been answered.
C6_FailClosed ==
    /\ \A t \in Tasks : pc[t] = "push" => ~qfail[t]
    /\ ~anyQueryOk => (pushed = EmptyBag /\ \A t \in Tasks : pc[t] # "push")

\* C6 witness: a query has failed, the candidate was dropped and
\* generateUniqueCode goes on to its next attempt.
C6_QueryFailed ==
    \E t \in Tasks : pc[t] = "gen" /\ qfail[t] /\ attempt[t] > 0

\* C7: the codes sent are exactly the codes in the channel plus the codes
\* GetCode has returned, counted with multiplicity.
C7_NoLossNoDuplication == pushed = SeqToBag(codeChan) (+) taken

\* C7 witness: two requests hold a code each while the channel holds more.
C7_ConcurrentTakes ==
    /\ \E q, r \in Requests : q # r /\ rpc[q] = "create" /\ rpc[r] = "create"
    /\ Len(codeChan) > 0
    /\ Filling # {}

\* C8: GetCode returns only from a channel that holds a code, with a code
\* that was sent, and an empty channel gets a code only by a send.
C8_TakeWaitsForPush ==
    [][/\ \A r \in Requests :
             (rpc[r] = "take" /\ rpc'[r] # "take") =>
                 /\ Len(codeChan) > 0
                 /\ got'[r] = Head(codeChan)
                 /\ BagIn(got'[r], pushed)
       /\ (Len(codeChan) = 0 /\ Len(codeChan') > 0) =>
             \E t \in Tasks : PushStep(t) /\ codeChan' = <<cand[t]>>]_vars

\* C8 witness: after Stop, a request waits in GetCode on the empty channel
\* while a refill pass is about to send.
C8_BlockedTake ==
    /\ stopped
    /\ Len(codeChan) = 0
    /\ \E r \in Requests : rpc[r] = "take"
    /\ \E t \in Tasks : pc[t] = "push"

\* All short_links codes are used up.
Exhausted == \A c \in Codes : store[c] # "none"

\* C9: while the pipeline runs and codes are left, every request waiting
\* in GetCode gets a code.
C9_TakeReturns ==
    \A r \in Requests :
        (rpc[r] = "take" /\ nStarts > 0 /\ ~stopped)
            ~> (rpc[r] # "take" \/ Exhausted)

\* C9 witness: a request waits on the empty channel after the initial pass
\* has filled it and ended.
C9_WaitingAfterRefill ==
    /\ ~stopped
    /\ pc[<<"fill", 1>>] = "done"
    /\ ~Exhausted
    /\ Len(codeChan) = 0
    /\ Filling = {}
    /\ BagCardinality(taken) >= ChannelBufferSize
    /\ \E r \in Requests : rpc[r] = "take"

\* No background goroutine is left running.
Terminated == \A t \in Tasks : pc[t] \in {"unborn", "done"}

\* C10: after Stop every background goroutine ends, and a refill pass
\* begins no candidate after Stop.
C10_StopTerminates ==
    /\ stopped ~> Terminated
    /\ [][\A t \in Tasks :
             (stopped /\ pc[t] = "fc_select") => pc'[t] # "gen"]_vars

\* C10 witness: Stop arrives while a refill pass is generating and the
\* monitor waits.
C10_StoppedMidAttempt ==
    /\ stopped
    /\ \E t \in Tasks : pc[t] = "gen" /\ attempt[t] > 0
    /\ \E t \in MonTasks : pc[t] = "mon_select"

\* Positions at which a goroutine works on a candidate: inside
\* generateUniqueCode, or about to send its result.
InAttempt == {"gen", "push"}

\* C11: once stopChan is closed no goroutine begins a candidate, and a
\* goroutine that sends leaves its candidate with that one send: a pass in
\* progress sends at most the candidate it was working on, and a pass that
\* begins after Stop (a late tick, a late initial fill, a Start after Stop)
\* sends nothing.
C11_NoRefillAfterStop ==
    [][stopped =>
          /\ \A t \in Tasks :
                 /\ pc'[t] \in InAttempt => pc[t] \in InAttempt
                 /\ PushStep(t) => pc'[t] \notin InAttempt
          /\ pushed' # pushed => \E t \in Tasks : PushStep(t)]_vars

\* C11 witness: after Stop the goroutines of the first Start have ended and
\* a pass of the second Start stands at its select with room in the channel.
C11_PassAfterStop ==
    /\ stopped
    /\ pc[<<"fill", 1>>] = "done"
    /\ pc[<<"mon", 1>>] = "done"
    /\ \E t \in Tasks : pc[t] = "fc_select"
    /\ Len(codeChan) < ChannelBufferSize

\* stopChan is closed, the channel is empty and no goroutine works on a
\* candidate.
Quiet ==
    /\ stopped
    /\ Len(codeChan) = 0
    /\ \A t \in Tasks : pc[t] \notin InAttempt

\* C12 as stated: request r1, which waited in GetCode on the empty channel
\* when Stop was called, never returns from it.
C12_BlockedAtStopNeverReturns == stopped => rpc["r1"] = "take"

\* C12 amended: once stopChan is closed, the channel is empty and no
\* goroutine works on a candidate, this stays so and no request leaves
\* GetCode, whether it waited there at Stop or called it later.
C12_QuietStopNeverWakes ==
    [][Quiet =>
          /\ Quiet'
          /\ \A r \in Requests : rpc[r] = "take" => rpc'[r] = "take"]_vars

\* C12 witness: after Stop all goroutines have ended, the channel is empty,
\* and r1 and another request wait in GetCode.
C12_BlockedForever ==
    /\ Quiet
    /\ nStarts > 0
    /\ Terminated
    /\ rpc["r1"] = "take"
    /\ \E r \in Requests \ {"r1"} : rpc[r] = "take"

\* C13: in the running pipeline a monitor that ticks with fewer than
\* MinFillThreshold codes in the channel calls fillChannel; from there a
\* refill pass is under way at some time, and the channel is full again at
\* some time unless every code is used up.
C13_RefillOnLowWater ==
    /\ [][\A t \in MonTasks :
             (~stopped /\ pc[t] = "mon_select" /\ pc'[t] # "mon_select"
              /\ Len(codeChan) < MinFillThreshold) => pc'[t] = "fc_lock"]_vars
    /\ (nStarts > 0 /\ ~stopped /\ Len(codeChan) < MinFillThreshold)
           ~> (Filling # {})
    /\ (nStarts > 0 /\ ~stopped /\ Len(codeChan) < MinFillThreshold)
           ~> (Len(codeChan) = ChannelBufferSize \/ Exhausted)

\* C13 witness: the initial pass has ended, takes have brought the channel
\* below MinFillThreshold, and the monitor has called fillChannel.
C13_MonitorTriggered ==
    /\ ~stopped
    /\ pc[<<"fill", 1>>] = "done"
    /\ pc[<<"mon", 1>>] = "fc_lock"
    /\ ~isFilling
    /\ Len(codeChan) < MinFillThreshold
    /\ BagCardinality(taken) > ChannelBufferSize - MinFillThreshold

\* C14: with a Generator that is built by NewGenerator and never started,
\* as setupTest builds it, every CreateShortLink request that reaches
\* GetCode is answered 201.
C14_TestPostCreated ==
    [](nStarts = 0) =>
        \A r \in Requests : (rpc[r] = "take") ~> (resp[r] = 201)

\* C15: a request whose insert is rejected because its code already has a
\* short_links row goes back to GetCode for a fresh code.
C15_RetriesOnDuplicate ==
    [][\A r \in Requests :
          (rpc[r] = "create" /\ rpc'[r] # "create" /\ store[got[r]] # "none")
              => rpc'[r] = "take"]_vars

\* C16: a goroutine comes to its send only from generateUniqueCode, by a
\* query that was answered and found no row for the candidate; it keeps
\* that candidate until the send, and the send appends exactly it.
C16_PushedAfterProbe ==
    [][\A t \in Tasks :
          /\ (pc'[t] = "push" /\ pc[t] # "push") =>
                 /\ pc[t] = "gen"
                 /\ cand'[t] \in Codes
                 /\ store[cand'[t]] = "none"
                 /\ ~qfail'[t]
          /\ (pc[t] = "push" /\ pc'[t] = "push") => cand'[t] = cand[t]
          /\ PushStep(t) => codeChan' = Append(codeChan, cand[t])]_vars

\* C16 witness: a goroutine is about to send a candidate that it probed
\* after a collision and that has got a short_links row since the probe.
C16_ProbedThenStored ==
    \E t \in Tasks :
        /\ pc[t] = "push"
        /\ attempt[t] > 0
        /\ store[cand[t]] # "none"

\* C17: a goroutine leaves a pass, at a full channel or at a closed
\* stopChan, only through the deferred release, which clears isFilling;
\* while no goroutine is in a pass isFilling is false and the next caller
\* of fillChannel acquires it.
C17_FlagReleasedOnExit ==
    /\ [](Filling = {} => ~isFilling)
    /\ [][\A t \in Tasks :
             /\ (pc[t] \in InPass /\ pc'[t] \notin InPass) =>
                    (pc[t] = "fc_unlock" /\ ~isFilling')
             /\ (pc'[t] = "fc_unlock" /\ pc[t] # "fc_unlock") =>
                    \/ pc[t] = "fc_loop" /\ Len(codeChan) >= ChannelBufferSize
                    \/ pc[t] = "fc_select" /\ stopped
             /\ (Filling = {} /\ pc[t] = "fc_lock" /\ pc'[t] # "fc_lock") =>
                    (pc'[t] = "fc_loop" /\ isFilling')]_vars

\* C17 witness: after takes and after Stop the channel is full, the initial
\* fill has ended, the flag is free and a caller of fillChannel stands at
\* the lock.
C17_FreeAfterExits ==
    /\ stopped
    /\ ~isFilling
    /\ pc[<<"fill", 1>>] = "done"
    /\ Len(codeChan) = ChannelBufferSize
    /\ taken # EmptyBag
    /\ \E t \in Tasks : pc[t] = "fc_lock"

\* C18: a caller of fillChannel that finds isFilling set returns at once:
\* the flag stays set, the channel, the candidates, the attempt counters and
\* the store are untouched, and every other goroutine stays where it is.
C18_DebounceIsNoOp ==
    [][\A t \in Tasks :
          (pc[t] = "fc_lock" /\ isFilling /\ pc'[t] # "fc_lock") =>
              /\ pc'[t] = Return(t)
              /\ isFilling'
              /\ \A u \in Tasks \ {t} : pc'[u] = pc[u]
              /\ UNCHANGED <<codeChan, pushed, cand, attempt, qfail,
                             anyQueryOk, store>>]_vars

\* C18 witness: the initial fill of the second Start has returned from
\* fillChannel before anything was sent and before Stop, so it found the
\* flag held; the pass that holds the flag goes on to its send.
C18_DebouncedMonitor ==
    /\ isFilling
    /\ ~stopped
    /\ pc[<<"mon", 1>>] = "mon_select"
    /\ pc[<<"fill", 2>>] = "done"
    /\ \E t \in Tasks : pc[t] = "push"
    /\ pushed = EmptyBag

\* C19: producing one candidate runs at most MaxAttempts generate-and-probe
\* cycles (attempt counts the cycles already lost, so it stays below
\* MaxAttempts).  A cycle ends in one of three ways: the probe reports the
\* candidate as new and that candidate, absent from the store, is the one
\* handed to the send, whatever the number of cycles lost before it; or the
\* probe reports it as existing (a stored code or a failed query) and one
\* more cycle is counted; or the cycle was the last one, nothing is sent,
\* the channel keeps its contents and the pass is at its loop test again.
C19_CollisionBound ==
    /\ [](\A t \in Tasks : attempt[t] < MaxAttempts)
    /\ [][\A t \in Tasks : pc[t] = "gen" =>
            /\ pc'[t] \in {"gen", "push", "fc_loop", "sleep"}
            /\ pc'[t] = "push" =>
                  /\ cand'[t] \in Codes
                  /\ store[cand'[t]] = "none"
                  /\ attempt'[t] = attempt[t]
            /\ (pc'[t] = "gen" /\ attempt'[t] # attempt[t]) =>
                  /\ attempt'[t] = attempt[t] + 1
                  /\ qfail'[t] \/ \E c \in Codes : store[c] # "none"
                  /\ UNCHANGED <<codeChan, pushed>>
            /\ pc'[t] = "fc_loop" =>
                  /\ attempt'[t] = 0
                  /\ UNCHANGED <<codeChan, pushed, isFilling>>]_vars

\* C19 witness: with a code in the store, a candidate found new in the last
\* allowed cycle, after MaxAttempts - 1 lost cycles, waits to be sent.
C19_LastAttemptAccepted ==
    \E t \in Tasks :
        /\ pc[t] = "push"
        /\ attempt[t] = MaxAttempts - 1
        /\ store[cand[t]] = "none"
        /\ \E c \in Codes : store[c] # "none"

\* C20: a failure of the random source does not end the refill pass.  The
\* step that meets the failure sends nothing and leaves the channel and the
\* flag as they are; the pass then sleeps with the flag held, and the only
\* way out of the sleep is the loop test of a new iteration, which it
\* reaches; and a pass gets to its release only from the loop test at full
\* capacity or from the select at a closed stopChan.
C20_RandomFailureKeepsPass ==
    /\ [][\A t \in Tasks :
            /\ (pc'[t] = "sleep" /\ pc[t] # "sleep") =>
                  /\ pc[t] = "gen"
                  /\ isFilling'
                  /\ UNCHANGED <<codeChan, pushed, isFilling>>
            /\ (pc[t] = "sleep" /\ pc'[t] # "sleep") =>
                  /\ pc'[t] = "fc_loop"
                  /\ isFilling'
                  /\ UNCHANGED <<codeChan, pushed, isFilling>>
            /\ (pc'[t] = "fc_unlock" /\ pc[t] # "fc_unlock") =>
                  \/ pc[t] = "fc_loop" /\ Len(codeChan) = ChannelBufferSize
                  \/ pc[t] = "fc_select" /\ stopped]_vars
    /\ \A t \in Tasks : (pc[t] = "sleep") ~> (pc[t] = "fc_loop")

\* C20 witness: the random source has failed in a pass that had already
\* sent a code: the pass sleeps, the flag is held, the channel holds what
\* it held and is not full, and nothing has stopped the Generator.
C20_SleepingPass ==
    \E t \in Tasks :
        /\ pc[t] = "sleep"
        /\ isFilling
        /\ ~stopped
        /\ pushed # EmptyBag
        /\ Len(codeChan) > 0
        /\ Len(codeChan) < ChannelBufferSize

\* C21: the monitor calls fillChannel at a tick exactly when the occupancy
\* it reads is strictly below MinFillThreshold.  A monitor leaves its select
\* for fillChannel only at an occupancy below the threshold; a tick at an
\* occupancy below the threshold does call fillChannel; and until Stop the
\* monitor leaves its select in no other way, so that at an occupancy at or
\* above the threshold, below capacity or not, it stays in the select and
\* nothing is generated or sent on its behalf.
C21_TickRefillsIffBelow ==
    [][\A t \in MonTasks : pc[t] = "mon_select" =>
          /\ pc'[t] \in {"mon_select", "fc_lock", "done"}
          /\ pc'[t] = "fc_lock" => Len(codeChan) < MinFillThreshold
          /\ (MonitorTick(t) /\ Len(codeChan) < MinFillThreshold) =>
                pc'[t] = "fc_lock"
          /\ (Len(codeChan) >= MinFillThreshold /\ ~stopped) =>
                pc'[t] = "mon_select"
          /\ pc'[t] = "done" => stopped]_vars

\* C21 witness: codes have been taken, the channel holds exactly
\* MinFillThreshold codes, fewer than its capacity, no pass runs and the
\* monitor waits in its select: its ticks start nothing.
C21_AtThresholdNoRefill ==
    /\ ~stopped
    /\ pc[<<"mon", 1>>] = "mon_select"
    /\ Len(codeChan) = MinFillThreshold
    /\ Len(codeChan) < ChannelBufferSize
    /\ taken # EmptyBag
    /\ ~isFilling
    /\ pc[<<"fill", 1>>] = "done"

\* C22: while stopChan is open a pass ends only at a loop test that reads
\* the channel at its capacity: a goroutine reaches the release before Stop
\* only from the loop test with len(codeChan) = ChannelBufferSize, and a
\* loop test that reads fewer codes than the capacity, at or above
\* MinFillThreshold included, goes on to the next iteration.
C22_PassEndsAtCapacity ==
    [][\A t \in Tasks :
          /\ (~stopped /\ pc'[t] = "fc_unlock" /\ pc[t] # "fc_unlock") =>
                /\ pc[t] = "fc_loop"
                /\ Len(codeChan) = ChannelBufferSize
          /\ (pc[t] = "fc_loop" /\ pc'[t] # "fc_loop"
                /\ Len(codeChan) < ChannelBufferSize) =>
                pc'[t] = "fc_select"]_vars

\* C22 witness: before any Stop the monitor's pass has read a full channel
\* and is about to release the flag, after more codes were sent than the
\* channel holds: the pass went from below MinFillThreshold to capacity.
C22_MonitorPassFilledUp ==
    /\ ~stopped
    /\ pc[<<"mon", 1>>] = "fc_unlock"
    /\ pc[<<"fill", 1>>] = "done"
    /\ Len(codeChan) = ChannelBufferSize
    /\ BagCardinality(pushed) > ChannelBufferSize

\* C23: Stop closes stopChan and touches nothing else: the step that stops
\* the Generator leaves the channel's contents as they are.  After Stop a
\* code leaves the channel only in a GetCode that returns it, the head, one
\* code per call; the channel changes in no other way than such a receive
\* or the send of an attempt in progress; and as long as codes remain, a
\* waiting GetCode can receive.
C23_StopKeepsBuffer ==
    /\ [](\A r \in Requests :
             (stopped /\ Len(codeChan) > 0 /\ rpc[r] = "take") =>
                 ENABLED GetCode(r))
    /\ [][/\ (~stopped /\ stopped') =>
                UNCHANGED <<codeChan, pushed, taken>>
          /\ \A r \in Requests :
                (stopped /\ rpc[r] = "take" /\ rpc'[r] # "take") =>
                    /\ Len(codeChan) > 0
                    /\ got'[r] = Head(codeChan)
                    /\ codeChan' = Tail(codeChan)
                    /\ taken' = taken (+) SetToBag({Head(codeChan)})
          /\ (stopped /\ codeChan' # codeChan) =>
                \/ /\ Len(codeChan) > 0
                   /\ codeChan' = Tail(codeChan)
                   /\ \E r \in Requests :
                         rpc[r] = "take" /\ got'[r] = Head(codeChan)
                \/ \E t \in Tasks : PushStep(t)]_vars

\* C23 witness: the Generator is stopped and all its goroutines have ended,
\* the channel is still full, codes were taken before, and a call of
\* GetCode is about to receive.
C23_FullAfterStop ==
    /\ stopped
    /\ Terminated
    /\ Len(codeChan) = ChannelBufferSize
    /\ taken # EmptyBag
    /\ rpc["r1"] = "take"

\* C24: at most one monitor goroutine of a Generator is alive at any time,
\* however often Start is called.
C24_OneMonitor ==
    Cardinality({t \in MonTasks : pc[t] \notin {"unborn", "done"}}) <= 1

\* The characters of Charset, one string each.
CharsetChars == {SubSeq(Charset, i, i) : i \in 1 .. Len(Charset)}

\* A string of exactly CodeLength characters, all of them in Charset.
WellFormed(code) ==
    /\ Len(code) = CodeLength
    /\ \A i \in 1 .. Len(code) : SubSeq(code, i, i) \in CharsetChars

\* C25: Charset has 62 different characters, and whatever the random
\* source returns for a byte, generateRandomString makes a string of
\* CodeLength characters of Charset.  Every code in the channel, every
\* code handed to the send and every code GetCode has returned is such a
\* string; in particular the empty string, which generateUniqueCode
\* returns after its last lost attempt, is never sent and never returned.
C25_CodesWellFormed ==
    /\ Cardinality(CharsetChars) = 62
    /\ \A n \in RandInts :
          WellFormed(generateRandomString(CodeLength,
                                          [i \in 1 .. CodeLength |-> n]))
    /\ \A i \in DOMAIN codeChan : WellFormed(codeChan[i])
    /\ \A c \in BagToSet(pushed) \cup BagToSet(taken) : WellFormed(c)
    /\ \A t \in Tasks : pc[t] = "push" => WellFormed(cand[t])
    /\ \A r \in Requests : rpc[r] = "create" => WellFormed(got[r])

\* C25 witness: with a code in the store, so that attempts can be lost, the
\* channel holds a code and a request holds one that GetCode returned.
C25_CodeReturned ==
    /\ Len(codeChan) > 0
    /\ \E c \in Codes : store[c] # "none"
    /\ \E r \in Requests : rpc[r] = "create" /\ got[r] \in Codes

\* C26: the send of a refill pass never blocks: whenever a goroutine stands
\* at the send, the channel holds fewer codes than its capacity, so the
\* send can be done at once.
C26_PushNeverBlocks ==
    \A t \in Tasks :
        pc[t] = "push" =>
            /\ Len(codeChan) < ChannelBufferSize
            /\ Len(codeChan) < chanCap
            /\ ENABLED FillPush(t)

\* C26 witness: Start was called twice; a pass stands at the send with one
\* free slot left in the channel while another goroutine calls fillChannel.
C26_LastSlot ==
    /\ nStarts = 2
    /\ \E t \in Tasks :
          /\ pc[t] = "push"
          /\ Len(codeChan) = ChannelBufferSize - 1
          /\ \E u \in Tasks \ {t} : pc[u] = "fc_lock"

=============================================================================
